---- MODULE Spec2Model ----
(***************************************************************************)
(* Model of execute_outer_proof_gadget                                     *)
(* (dpc/src/dpc/base_dpc/outer_circuit_gadget.rs): the construction of the *)
(* outer circuit that re-encodes the inner SNARK's public input, verifies  *)
(* the inner proof and every death/birth predicate proof, and binds the    *)
(* predicate verification keys to the declared predicate commitment.       *)
(*                                                                         *)
(* One behaviour is one call.  The arguments of the call (and the build    *)
(* and constraint-system mode it runs under) are chosen in Init and kept   *)
(* in inp; the other variables are the locals of the function and the      *)
(* constraint system it writes into.                                       *)
(***************************************************************************)
EXTENDS Integers, Sequences, FiniteSets, TLC

\* ------------------------------------------------------------------ bounds
\* C::NUM_INPUT_RECORDS and C::NUM_OUTPUT_RECORDS of the instantiation.
NUM_INPUT_RECORDS == 2
NUM_OUTPUT_RECORDS == 2
\* Payload bytes one inner-field element can hold.
FeCapacity == 2
\* Largest number of field elements an embedding of one value yields.
MaxFeLen == 3

FeSize == FeCapacity + 1

\* ------------------------------------------------------------ byte helpers
Zeros(n) == [k \in 1..n |-> 0]

\* UInt8::to_bits_le: the 8 bits of a byte, least significant first.
ToBitsLE(byte) == [k \in 1..8 |-> (byte \div (2 ^ (k - 1))) % 2]

RECURSIVE Concat(_)
Concat(seqs) == IF seqs = <<>> THEN <<>> ELSE Head(seqs) \o Concat(Tail(seqs))

\* input_bytes.iter().flat_map(|byte| byte.to_bits_le()).collect()
BytesToBits(bytes) == Concat([k \in 1..Len(bytes) |-> ToBitsLE(bytes[k])])

\* .filter(|inp| !inp.is_empty()) on an iterator of bit groups.
RECURSIVE FilterNonEmpty(_)
FilterNonEmpty(groups) ==
    IF groups = <<>> THEN <<>>
    ELSE IF Head(groups) = <<>> THEN FilterNonEmpty(Tail(groups))
    ELSE <<Head(groups)>> \o FilterNonEmpty(Tail(groups))

\* ------------------------------------------------- i64 as 8 bytes, two's complement
I64_MIN == <<0, 0, 0, 0, 0, 0, 0, 128>>
I64_MAX == <<255, 255, 255, 255, 255, 255, 255, 127>>

RECURSIVE AddOne(_)
\* wrapping +1 on a little-endian byte string
AddOne(bytes) ==
    IF bytes = <<>> THEN <<>>
    ELSE IF Head(bytes) = 255 THEN <<0>> \o AddOne(Tail(bytes))
    ELSE <<Head(bytes) + 1>> \o Tail(bytes)

\* wrapping negation: invert every bit, add one
WrappingNeg(bytes) == AddOne([k \in 1..Len(bytes) |-> 255 - bytes[k]])

RECURSIVE LeBytes(_, _)
\* the n-byte little-endian image of the natural number m
LeBytes(m, n) == IF n = 0 THEN <<>> ELSE <<m % 256>> \o LeBytes(m \div 256, n - 1)

\* the i64 whose value is the small integer n
I64(n) == IF n < 0 THEN WrappingNeg(LeBytes(0 - n, 8)) ELSE LeBytes(n, 8)

\* i64::is_negative
IsNegative(v) == v[8] >= 128

\* i64::abs overflows exactly on i64::MIN
AbsOverflows(v) == v = I64_MIN

\* i64::abs where it does not panic (wrapping on i64::MIN), then `as u64`
\* (a reinterpretation of the same 64 bits) and to_le_bytes().
AbsAsU64LeBytes(v) == IF IsNegative(v) THEN WrappingNeg(v) ELSE v

\* ------------------------------------------------------------ field embedding
\* The values embedded into the inner field, in the order of the conversions.
ParamLabels ==
    << "account_commitment", "account_signature", "record_commitment",
       "predicate_vk_commitment", "local_data_commitment_pp",
       "serial_number_nonce", "value_commitment", "ledger_parameters",
       "ledger_digest" >>
TailLabels == << "predicate_commitment", "memo", "local_data_commitment" >>

Src(label, index) == <<label, index>>

SeqOfSrc(labels) == [k \in 1..Len(labels) |-> Src(labels[k], 0)]
SerialNumberSrcs == [k \in 1..NUM_INPUT_RECORDS |-> Src("serial_number", k - 1)]
CommitmentSrcs == [k \in 1..NUM_OUTPUT_RECORDS |-> Src("commitment", k - 1)]

\* Every value handed to ToConstraintField::to_field_elements with a `?`.
OpaqueSrcSeq ==
    SeqOfSrc(ParamLabels) \o SerialNumberSrcs \o CommitmentSrcs \o SeqOfSrc(TailLabels)
ByteSrcSeq == << Src("value_balance", 0), Src("is_negative", 0) >>

Range(f) == {f[x] : x \in DOMAIN f}
OpaqueSrcs == Range(OpaqueSrcSeq)
AllSrcs == OpaqueSrcs \cup Range(ByteSrcSeq)

LabelCode(label) ==
    CASE label = "account_commitment" -> 1
      [] label = "account_signature" -> 2
      [] label = "record_commitment" -> 3
      [] label = "predicate_vk_commitment" -> 4
      [] label = "local_data_commitment_pp" -> 5
      [] label = "serial_number_nonce" -> 6
      [] label = "value_commitment" -> 7
      [] label = "ledger_parameters" -> 8
      [] label = "ledger_digest" -> 9
      [] label = "serial_number" -> 10
      [] label = "commitment" -> 11
      [] label = "predicate_commitment" -> 12
      [] label = "memo" -> 13
      [] label = "local_data_commitment" -> 14

\* A field element is its payload (at most FeCapacity bytes); its serialization
\* (ToBytes) is the payload zero-padded to the element's full width.
FeToBytes(fe) == fe \o Zeros(FeSize - Len(fe))

\* to_bytes![x] of a list of field elements: the elements' images, back to back.
ToBytesVec(els) == Concat([k \in 1..Len(els) |-> FeToBytes(els[k])])

\* to_field_elements of a byte slice: FeCapacity bytes per element.
RECURSIVE PackBytes(_)
PackBytes(bytes) ==
    IF bytes = <<>> THEN <<>>
    ELSE IF Len(bytes) <= FeCapacity THEN <<bytes>>
    ELSE <<SubSeq(bytes, 1, FeCapacity)>>
            \o PackBytes(SubSeq(bytes, FeCapacity + 1, Len(bytes)))

\* The commitment scheme, an ideal binding commitment: the output determines
\* the committed input and the randomness.
Commit(params, input, randomness) == [params |-> params, input |-> input, r |-> randomness]

RECURSIVE SumSeq(_)
SumSeq(s) == IF s = <<>> THEN 0 ELSE Head(s) + SumSeq(Tail(s))

\* One byte that the embedding of a commitment output depends on.
CommitByte(c) == (SumSeq(c.input) + 3 * Len(c.input) + c.r) % 8

\* The part of a value's embedding that depends on the value itself.
ValOf(a, src) ==
    CASE src[1] = "ledger_digest" -> a.ledger_digest
      [] src[1] = "predicate_commitment" -> CommitByte(a.predicate_commitment)
      [] OTHER -> 0

\* to_field_elements of an opaque value of the call a: fe_len[src] elements,
\* element k tagged with the value it comes from and its index k.
ToFieldElements(a, src) ==
    [k \in 1..a.fe_len[src] |->
        << LabelCode(src[1]) + 32 * ValOf(a, src), 16 * src[2] + (k - 1) >>]

\* ------------------------------------------------- the inner SNARK's public input
\* One allocation of the inner-SNARK input: the namespace it is allocated
\* under, the embedded value it reads, and the element read (-1: the whole list).
Group(ns, src, elem) == [ns |-> ns, src |-> src, elem |-> elem]

SerialNumberGroups ==
    Concat([k \in 1..NUM_INPUT_RECORDS |->
        << Group("Allocate serial number " \o ToString(k - 1) \o " 1", Src("serial_number", k - 1), 0),
           Group("Allocate serial number " \o ToString(k - 1) \o " 2", Src("serial_number", k - 1), 1) >>])

CommitmentGroups ==
    [k \in 1..NUM_OUTPUT_RECORDS |->
        Group("Allocate record commitment number " \o ToString(k - 1) \o " ", Src("commitment", k - 1), -1)]

\* The plan with the memo allocated before the predicate commitment and the
\* sign flag before the magnitude.
InnerSnarkInputPlan_Permuted ==
    << Group("Allocate account commitment pp ", Src("account_commitment", 0), -1),
       Group("Allocate account signature pp 1", Src("account_signature", 0), 0),
       Group("Allocate account signature pp 2", Src("account_signature", 0), 1),
       Group("Allocate record commitment pp", Src("record_commitment", 0), -1),
       Group("Allocate predicate vk commitment pp", Src("predicate_vk_commitment", 0), -1),
       Group("Allocate local data commitment pp", Src("local_data_commitment_pp", 0), -1),
       Group("Allocate serial number nonce crh pp", Src("serial_number_nonce", 0), -1),
       Group("Allocate value commitment pp", Src("value_commitment", 0), -1),
       Group("Allocate ledger pp", Src("ledger_parameters", 0), -1),
       Group("Allocate ledger digest", Src("ledger_digest", 0), -1) >>
    \o SerialNumberGroups
    \o CommitmentGroups
    \o << Group("Allocate memo 1", Src("memo", 0), 0),
          Group("Allocate memo 2", Src("memo", 0), 1),
          Group("Allocate predicate commitment 1", Src("predicate_commitment", 0), 0),
          Group("Allocate predicate commitment 2", Src("predicate_commitment", 0), 1),
          Group("Allocate local data commitment", Src("local_data_commitment", 0), -1),
          Group("Allocate is_negative flag", Src("is_negative", 0), -1),
          Group("Allocate value balance", Src("value_balance", 0), -1) >>

\* The 17 + 2n + m allocations in the order the function makes them.
InnerSnarkInputPlan ==
    << Group("Allocate account commitment pp ", Src("account_commitment", 0), -1),
       Group("Allocate account signature pp 1", Src("account_signature", 0), 0),
       Group("Allocate account signature pp 2", Src("account_signature", 0), 1),
       Group("Allocate record commitment pp", Src("record_commitment", 0), -1),
       Group("Allocate predicate vk commitment pp", Src("predicate_vk_commitment", 0), -1),
       Group("Allocate local data commitment pp", Src("local_data_commitment_pp", 0), -1),
       Group("Allocate serial number nonce crh pp", Src("serial_number_nonce", 0), -1),
       Group("Allocate value commitment pp", Src("value_commitment", 0), -1),
       Group("Allocate ledger pp", Src("ledger_parameters", 0), -1),
       Group("Allocate ledger digest", Src("ledger_digest", 0), -1) >>
    \o SerialNumberGroups
    \o CommitmentGroups
    \o << Group("Allocate predicate commitment 1", Src("predicate_commitment", 0), 0),
          Group("Allocate predicate commitment 2", Src("predicate_commitment", 0), 1),
          Group("Allocate memo 1", Src("memo", 0), 0),
          Group("Allocate memo 2", Src("memo", 0), 1),
          Group("Allocate local data commitment", Src("local_data_commitment", 0), -1),
          Group("Allocate value balance", Src("value_balance", 0), -1),
          Group("Allocate is_negative flag", Src("is_negative", 0), -1) >>

\* What evaluating `&to_bytes![..].map_err(..)?` of one allocation does: the
\* index expression first (out of bounds panics), then the serialization.
GroupOutcome(a, f, g) ==
    IF g.elem >= 0 /\ g.elem + 1 > Len(f[g.src]) THEN "Panic"
    ELSE IF g.src \in a.bytes_err THEN "AssignmentMissing"
    ELSE "Ok"

GroupBytes(f, g) ==
    IF g.elem = -1 THEN ToBytesVec(f[g.src]) ELSE FeToBytes(f[g.src][g.elem + 1])

\* The number of leading allocations of the plan that are made.
RECURSIVE AllocatedPrefix(_, _, _)
AllocatedPrefix(a, f, plan) ==
    IF plan = <<>> \/ GroupOutcome(a, f, Head(plan)) # "Ok" THEN 0
    ELSE 1 + AllocatedPrefix(a, f, Tail(plan))

\* -------------------------------------------------------- external primitives
\* Parameters of the predicate-verification-key commitment and hash.
PredicateVkCommitmentParameters == 4
PredicateVkCrhParameters == 3

VerificationKeys == {1, 2}

\* A witness that was never assigned (its closure was not evaluated).
NoVk == 0
NoProof == [vk |-> 0, tag |-> 0]
NoInnerProof == [vk |-> 0, ledger_digest |-> 0]
NoCommitment == Commit(0, <<>>, 0)

\* VerificationKeyGadget::to_bytes
VkToBytes(vk) == <<vk, 255 - vk>>

\* The collision-resistant hash, ideal: injective on byte strings of one length.
CRH(params, bytes) == [k \in 1..Len(bytes) |-> (7 * bytes[k] + params) % 256]

\* -------------------------------------------------------------- the call
DefaultFeLen(src) ==
    IF src[1] \in {"account_signature", "serial_number", "predicate_commitment", "memo"}
    THEN 2 ELSE 1

ValueBalances ==
    { I64(0), I64(5), I64(-5), I64(1), I64(-1), I64(300), I64(-300),
      I64_MAX, AddOne(I64_MIN), I64_MIN }

DeathSlots == 1..NUM_INPUT_RECORDS
BirthSlots == 1..NUM_OUTPUT_RECORDS

\* The digests in the order the commitment was made over them.
DigestOf(vk) == CRH(PredicateVkCrhParameters, VkToBytes(vk))
DigestsOf(vks) == Concat([k \in 1..Len(vks) |-> DigestOf(vks[k])])

\* slot k with slots 1 and 2 exchanged
Partner(k) == IF k = 1 THEN 2 ELSE IF k = 2 THEN 1 ELSE k
Swapped(vks) == [k \in 1..Len(vks) |-> IF Partner(k) <= Len(vks) THEN vks[Partner(k)] ELSE vks[k]]

ProofOrigins == {"own", "swapped", "replayed", "bogus"}

\* The predicate proofs a prover supplies with the keys vks: made for the key
\* and position of their own slot, for the partner slot's key, for the next
\* position, or for nothing at all.
ProofsFor(vks, origin) ==
    [k \in 1..Len(vks) |->
        CASE origin = "own" -> [vk |-> vks[k], tag |-> k - 1]
          [] origin = "swapped" -> [vk |-> Swapped(vks)[k], tag |-> k - 1]
          [] origin = "replayed" -> [vk |-> vks[k], tag |-> k % Len(vks)]
          [] origin = "bogus" -> NoProof]

PredicateInputs(vks, origin) ==
    [k \in 1..Len(vks) |-> [verification_key |-> vks[k], proof |-> ProofsFor(vks, origin)[k]]]

DeclaredKinds == {"fixed_order", "birth_first", "death_swapped", "other_randomness"}

DeclaredCommitment(dvk, bvk, kind) ==
    CASE kind = "fixed_order" ->
            Commit(PredicateVkCommitmentParameters, DigestsOf(dvk) \o DigestsOf(bvk), 1)
      [] kind = "birth_first" ->
            Commit(PredicateVkCommitmentParameters, DigestsOf(bvk) \o DigestsOf(dvk), 1)
      [] kind = "death_swapped" ->
            Commit(PredicateVkCommitmentParameters, DigestsOf(Swapped(dvk)) \o DigestsOf(bvk), 1)
      [] kind = "other_randomness" ->
            Commit(PredicateVkCommitmentParameters, DigestsOf(dvk) \o DigestsOf(bvk), 0)

InnerKinds == {"valid", "tampered", "wrong_vk"}

InnerProof(kind) ==
    CASE kind = "valid" -> [vk |-> 1, ledger_digest |-> 0]
      [] kind = "tampered" -> [vk |-> 1, ledger_digest |-> 1]
      [] kind = "wrong_vk" -> [vk |-> 2, ledger_digest |-> 0]

\* An honest call: every value embeds, every proof is valid for its slot and
\* the declared commitment is the commitment to the keys in the fixed order.
HonestCall ==
    LET vks == [k \in DeathSlots |-> 1 + (k % 2)]
        bks == [k \in BirthSlots |-> 1 + ((k + 1) % 2)]
    IN [ overflow_checks |-> FALSE,
         lazy_witness |-> FALSE,
         value_balance |-> I64(5),
         fe_len |-> [s \in OpaqueSrcs |-> DefaultFeLen(s)],
         fe_err |-> {},
         bytes_err |-> {},
         ledger_digest |-> 0,
         inner_snark_vk |-> 1,
         inner_snark_proof |-> InnerProof("valid"),
         old_death_predicate_verification_inputs |-> PredicateInputs(vks, "own"),
         new_birth_predicate_verification_inputs |-> PredicateInputs(bks, "own"),
         predicate_commitment |-> DeclaredCommitment(vks, bks, "fixed_order"),
         predicate_randomness |-> 1 ]

\* Calls that differ in the value balance and in the build's overflow checks.
ValueCalls ==
    { [HonestCall EXCEPT !.value_balance = v, !.overflow_checks = o] :
        v \in ValueBalances, o \in BOOLEAN }

\* Calls in which one value embeds to another number of elements, or one
\* conversion fails.
EmbeddingCalls ==
    LET bases == { [HonestCall EXCEPT !.value_balance = v, !.overflow_checks = o] :
                      v \in {I64(-5), I64_MIN}, o \in BOOLEAN }
    IN  { [b EXCEPT !.fe_len[s] = n] : b \in bases, s \in OpaqueSrcs, n \in 0..MaxFeLen }
        \cup { [b EXCEPT !.fe_err = {s}] : b \in bases, s \in AllSrcs }
        \cup { [b EXCEPT !.bytes_err = {s}] : b \in bases, s \in AllSrcs }

\* Calls with any number of predicate inputs up to the declared counts, in
\* proving mode and in key-generation mode.
CountCalls ==
    { [HonestCall EXCEPT
         !.lazy_witness = z,
         !.old_death_predicate_verification_inputs = SubSeq(@, 1, nd),
         !.new_birth_predicate_verification_inputs = SubSeq(@, 1, nb)] :
        z \in BOOLEAN, nd \in 0..NUM_INPUT_RECORDS, nb \in 0..NUM_OUTPUT_RECORDS }

\* Calls with any keys, proofs made for the right or the wrong key or
\* position, any declared commitment and any inner proof.
WitnessCalls ==
    { [HonestCall EXCEPT
         !.inner_snark_proof = InnerProof(ik),
         !.old_death_predicate_verification_inputs = PredicateInputs(dvk, dor),
         !.new_birth_predicate_verification_inputs = PredicateInputs(bvk, bor),
         !.predicate_commitment = DeclaredCommitment(dvk, bvk, dk)] :
        ik \in InnerKinds,
        dvk \in [DeathSlots -> VerificationKeys], bvk \in [BirthSlots -> VerificationKeys],
        dor \in ProofOrigins, bor \in {"own", "bogus"}, dk \in DeclaredKinds }

Calls == ValueCalls \cup EmbeddingCalls \cup CountCalls \cup WitnessCalls

\* ------------------------------------------------- the other side of the proofs
\* The public input the inner circuit allocates for the facts of call a, in
\* the order it allocates them: the statement an inner proof is made for.
InnerCircuitGroups(a) ==
    LET fe(label) == ToFieldElements(a, Src(label, 0))
        whole(label) == ToBytesVec(fe(label))
        one(label, k) == FeToBytes(fe(label)[k])
        sn(k) == ToFieldElements(a, Src("serial_number", k - 1))
        cm(k) == ToFieldElements(a, Src("commitment", k - 1))
        bytes ==
            << whole("account_commitment"),
               one("account_signature", 1), one("account_signature", 2),
               whole("record_commitment"), whole("predicate_vk_commitment"),
               whole("local_data_commitment_pp"), whole("serial_number_nonce"),
               whole("value_commitment"), whole("ledger_parameters"),
               whole("ledger_digest") >>
            \o Concat([k \in DeathSlots |-> << FeToBytes(sn(k)[1]), FeToBytes(sn(k)[2]) >>])
            \o [k \in BirthSlots |-> ToBytesVec(cm(k))]
            \o << one("predicate_commitment", 1), one("predicate_commitment", 2),
                  one("memo", 1), one("memo", 2),
                  whole("local_data_commitment"),
                  ToBytesVec(PackBytes(AbsAsU64LeBytes(a.value_balance))),
                  ToBytesVec(PackBytes(<<IF IsNegative(a.value_balance) THEN 1 ELSE 0>>)) >>
    IN [k \in 1..Len(bytes) |-> BytesToBits(bytes[k])]

\* SNARK::verify for the inner SNARK, ideal: a proof is accepted for the key
\* and the public input it was made for, and for nothing else.
InnerVerify(a, vk, input, proof) ==
    /\ vk # NoVk
    /\ proof.vk = vk
    /\ input = FilterNonEmpty(InnerCircuitGroups([a EXCEPT !.ledger_digest = proof.ledger_digest]))

\* The public input of a predicate circuit at record position tag.
PredicateCircuitGroups(a, tag) ==
    << ToBitsLE(tag),
       BytesToBits(ToBytesVec(ToFieldElements(a, Src("local_data_commitment_pp", 0)))),
       BytesToBits(ToBytesVec(ToFieldElements(a, Src("local_data_commitment", 0)))) >>

\* SNARK::verify for the predicate SNARK, ideal in the same way.
PredicateVerify(a, vk, input, proof) ==
    /\ vk # NoVk
    /\ proof.vk = vk
    /\ input = FilterNonEmpty(PredicateCircuitGroups(a, proof.tag))

\* ------------------------------------------------------------------ state
VARIABLES
    inp,                          \* the arguments of the call, its build and mode
    pc,                           \* the stage the call is about to run
    result,                       \* "Running", "Ok", "AssignmentMissing" or "Panic"
    fes,                          \* the *_fe locals: embedded value -> field elements
    value_balance_as_u64,         \* its to_le_bytes()
    is_negative,
    cs,                           \* what was added to the constraint system, in order
    inner_snark_input_bits,
    predicate_input_bits,
    checks,                       \* the verification constraints added, with their witnesses
    old_death_predicate_hashes,
    new_birth_predicate_hashes,
    i, j                          \* the loop indices of the two predicate loops

vars == << inp, pc, result, fes, value_balance_as_u64, is_negative, cs,
           inner_snark_input_bits, predicate_input_bits, checks,
           old_death_predicate_hashes, new_birth_predicate_hashes, i, j >>

locals == << fes, value_balance_as_u64, is_negative, inner_snark_input_bits,
             predicate_input_bits, old_death_predicate_hashes,
             new_birth_predicate_hashes, i, j >>

Init ==
    /\ inp \in Calls
    /\ pc = "parameters"
    /\ result = "Running"
    /\ fes = [s \in AllSrcs |-> <<>>]
    /\ value_balance_as_u64 = <<>>
    /\ is_negative = FALSE
    /\ cs = <<>>
    /\ inner_snark_input_bits = <<>>
    /\ predicate_input_bits = <<>>
    /\ checks = <<>>
    /\ old_death_predicate_hashes = <<>>
    /\ new_birth_predicate_hashes = <<>>
    /\ i = 0
    /\ j = 0

Added(ns, op) == [ns |-> ns, op |-> op]

\* `return Err(e)` / a panic: the call ends and nothing more is added.
Abort(outcome) ==
    /\ pc' = "returned"
    /\ result' = outcome

\* A value produced by a witness closure: absent when the constraint system
\* does not evaluate closures.
Witness(a, value, absent) == IF a.lazy_witness THEN absent ELSE value

\* -------------------------------------------------------------- the stages
\* Declare public parameters.
DeclareParameters ==
    /\ pc = "parameters"
    /\ cs' = cs \o << Added("Declare predicate_vk_commitment_parameters", "alloc_input"),
                      Added("Declare predicate_vk_crh_parameters", "alloc_input") >>
    /\ pc' = "field_elements"
    /\ UNCHANGED << inp, result, locals, checks >>

\* The *_fe locals once every conversion has succeeded.
FieldElements(a) ==
    [s \in AllSrcs |->
        IF s = Src("value_balance", 0) THEN PackBytes(AbsAsU64LeBytes(a.value_balance))
        ELSE IF s = Src("is_negative", 0)
             THEN PackBytes(<<IF IsNegative(a.value_balance) THEN 1 ELSE 0>>)
        ELSE ToFieldElements(a, s)]

\* How the conversions to field elements end: the embeddings of the opaque
\* values first, then abs(), then the embeddings of magnitude and sign.
FieldElementsOutcome(a) ==
    IF a.fe_err \cap OpaqueSrcs # {} THEN "AssignmentMissing"
    ELSE IF a.overflow_checks /\ AbsOverflows(a.value_balance) THEN "Panic"
    ELSE IF a.fe_err # {} THEN "AssignmentMissing"
    ELSE "Ok"

\* Construct the InnerSNARK input: the conversions to inner-field elements.
ConstructFieldElements ==
    /\ pc = "field_elements"
    /\ IF FieldElementsOutcome(inp) = "Ok"
       THEN /\ fes' = FieldElements(inp)
            /\ value_balance_as_u64' = AbsAsU64LeBytes(inp.value_balance)
            /\ is_negative' = IsNegative(inp.value_balance)
            /\ pc' = "inner_input"
            /\ UNCHANGED result
       ELSE /\ Abort(FieldElementsOutcome(inp))
            /\ UNCHANGED << fes, value_balance_as_u64, is_negative >>
    /\ UNCHANGED << inp, cs, checks, inner_snark_input_bits, predicate_input_bits,
                    old_death_predicate_hashes, new_birth_predicate_hashes, i, j >>

\* Construct the InnerSNARK input: the allocations and their bits.
AllocateInnerSnarkInput ==
    /\ pc = "inner_input"
    /\ LET plan == InnerSnarkInputPlan
           n == AllocatedPrefix(inp, fes, plan)
       IN /\ cs' = cs \o [k \in 1..n |-> Added(plan[k].ns, "alloc_input")]
          /\ IF n = Len(plan)
             THEN /\ inner_snark_input_bits' =
                        [k \in 1..n |-> BytesToBits(GroupBytes(fes, plan[k]))]
                  /\ pc' = "inner_proof"
                  /\ UNCHANGED result
             ELSE /\ Abort(GroupOutcome(inp, fes, plan[n + 1]))
                  /\ UNCHANGED inner_snark_input_bits
    /\ UNCHANGED << inp, checks, fes, value_balance_as_u64, is_negative,
                    predicate_input_bits, old_death_predicate_hashes,
                    new_birth_predicate_hashes, i, j >>

\* The groups handed over as they are, empty ones included.
VerifierInput_Unfiltered(groups) == groups

\* The public input handed to check_verify: the non-empty groups.
VerifierInput(groups) == FilterNonEmpty(groups)

Check(kind, index, vk, input, sat) ==
    [kind |-> kind, index |-> index, vk |-> vk, input |-> input, sat |-> sat]

\* Verify the InnerSNARK proof.
VerifyInnerSnarkProof ==
    /\ pc = "inner_proof"
    /\ LET vk == Witness(inp, inp.inner_snark_vk, NoVk)
           proof == Witness(inp, inp.inner_snark_proof, NoInnerProof)
           input == VerifierInput(inner_snark_input_bits)
       IN /\ cs' = cs \o << Added("Allocate inner snark verification key", "alloc"),
                            Added("Allocate inner snark proof", "alloc"),
                            Added("Check that proof is satisfied", "check_verify") >>
          /\ checks' = Append(checks, Check("inner", 0, vk, input, InnerVerify(inp, vk, input, proof)))
    /\ pc' = "predicate_input"
    /\ UNCHANGED << inp, result, locals >>

\* The two predicate loops in the other order: birth checks, then death checks.
NextStage_BirthFirst(stage, n) ==
    CASE stage = "predicate_input" ->
            IF NUM_OUTPUT_RECORDS > 0 THEN "birth"
            ELSE IF NUM_INPUT_RECORDS > 0 THEN "death" ELSE "commitment"
      [] stage = "birth" ->
            IF n < NUM_OUTPUT_RECORDS THEN "birth"
            ELSE IF NUM_INPUT_RECORDS > 0 THEN "death" ELSE "commitment"
      [] stage = "death" ->
            IF n < NUM_INPUT_RECORDS THEN "death" ELSE "commitment"

\* Control flow from the predicate input on: the stage that runs after `stage`
\* when n iterations of its loop are done.
NextStage(stage, n) ==
    CASE stage = "predicate_input" ->
            IF NUM_INPUT_RECORDS > 0 THEN "death"
            ELSE IF NUM_OUTPUT_RECORDS > 0 THEN "birth" ELSE "commitment"
      [] stage = "death" ->
            IF n < NUM_INPUT_RECORDS THEN "death"
            ELSE IF NUM_OUTPUT_RECORDS > 0 THEN "birth" ELSE "commitment"
      [] stage = "birth" ->
            IF n < NUM_OUTPUT_RECORDS THEN "birth" ELSE "commitment"

\* Construct predicate input: the two local-data groups every predicate shares.
ConstructPredicateInput ==
    /\ pc = "predicate_input"
    /\ LET pp == Src("local_data_commitment_pp", 0)
           comm == Src("local_data_commitment", 0)
       IN IF {pp, comm} \cap inp.fe_err # {} \/ {pp, comm} \cap inp.bytes_err # {}
          THEN /\ Abort("AssignmentMissing")
               /\ UNCHANGED << cs, predicate_input_bits >>
          ELSE /\ cs' = cs \o << Added("Allocate local data pp ", "alloc_input"),
                                 Added("Allocate local data comm", "alloc_input") >>
               /\ predicate_input_bits' =
                     << BytesToBits(ToBytesVec(ToFieldElements(inp, pp))),
                        BytesToBits(ToBytesVec(ToFieldElements(inp, comm))) >>
               /\ pc' = NextStage("predicate_input", 0)
               /\ UNCHANGED result
    /\ UNCHANGED << inp, checks, fes, value_balance_as_u64, is_negative,
                    inner_snark_input_bits, old_death_predicate_hashes,
                    new_birth_predicate_hashes, i, j >>

\* The same tag at every index.
Position_Zero(index) == ToBitsLE(0)

\* UInt8::constant(index as u8).to_bits_le()
Position(index) == ToBitsLE(index % 256)

\* The public input a predicate proof is checked against at a loop index.
PredicateVerifierInput(index, shared) == VerifierInput(<<Position(index)>> \o shared)

\* check_evaluation_gadget(crh parameters, vk.to_bytes()).to_bytes()
ClaimedPredicateHash(vk) == CRH(PredicateVkCrhParameters, VkToBytes(vk))

\* The closure also bails out when the proof was not made for the key supplied
\* with it.
ClosurePanics_OnBadProof(a, inputs, index) ==
    /\ ~a.lazy_witness
    /\ \/ index + 1 > Len(inputs)
       \/ inputs[index + 1].proof.vk # inputs[index + 1].verification_key

\* Evaluating `&inputs[index]` inside a witness closure panics out of bounds;
\* a closure that is not evaluated does nothing.
ClosurePanics(a, inputs, index) == ~a.lazy_witness /\ index + 1 > Len(inputs)

\* The key allocated by `|| Ok(&inputs[index].verification_key)`.
PredicateVerificationKey_First(a, inputs, index) ==
    IF a.lazy_witness THEN NoVk ELSE inputs[1].verification_key

PredicateVerificationKey(a, inputs, index) ==
    IF a.lazy_witness THEN NoVk ELSE inputs[index + 1].verification_key

\* The proof allocated by `|| Ok(&inputs[index].proof)`.
PredicateProof(a, inputs, index) ==
    IF a.lazy_witness THEN NoProof ELSE inputs[index + 1].proof

PredicateAdded(prefix) ==
    << Added(prefix \o "/Allocate proof", "alloc"),
       Added(prefix \o "/Allocate verification key", "alloc"),
       Added(prefix \o "/Compute predicate vk hash", "check_evaluation"),
       Added(prefix \o "/Check that proof is satisfied", "check_verify") >>

\* One iteration of the loop over the consumed records.
CheckDeathPredicate ==
    /\ pc = "death"
    /\ i < NUM_INPUT_RECORDS
    /\ LET inputs == inp.old_death_predicate_verification_inputs
       IN IF ClosurePanics(inp, inputs, i)
          THEN /\ Abort("Panic")
               /\ UNCHANGED << cs, checks, old_death_predicate_hashes, i >>
          ELSE LET proof == PredicateProof(inp, inputs, i)
                   vk == PredicateVerificationKey(inp, inputs, i)
                   input == PredicateVerifierInput(i, predicate_input_bits)
               IN /\ cs' = cs \o PredicateAdded("Check death predicate for input record " \o ToString(i))
                  /\ old_death_predicate_hashes' =
                        Append(old_death_predicate_hashes, ClaimedPredicateHash(vk))
                  /\ checks' = Append(checks,
                        Check("death", i, vk, input, PredicateVerify(inp, vk, input, proof)))
                  /\ i' = i + 1
                  /\ pc' = NextStage("death", i + 1)
                  /\ UNCHANGED result
    /\ UNCHANGED << inp, fes, value_balance_as_u64, is_negative, inner_snark_input_bits,
                    predicate_input_bits, new_birth_predicate_hashes, j >>

\* The created records tagged apart from the consumed ones: index + 128.
BirthPredicateVerifierInput_KindTagged(index, shared) ==
    VerifierInput(<<ToBitsLE((128 + index) % 256)>> \o shared)

\* The birth loop builds its public input as the death loop does: the tag is
\* `UInt8::constant(j as u8).to_bits_le()`, followed by the shared groups.
BirthPredicateVerifierInput(index, shared) == PredicateVerifierInput(index, shared)

\* One iteration of the loop over the created records.
CheckBirthPredicate ==
    /\ pc = "birth"
    /\ j < NUM_OUTPUT_RECORDS
    /\ LET inputs == inp.new_birth_predicate_verification_inputs
       IN IF ClosurePanics(inp, inputs, j)
          THEN /\ Abort("Panic")
               /\ UNCHANGED << cs, checks, new_birth_predicate_hashes, j >>
          ELSE LET proof == PredicateProof(inp, inputs, j)
                   vk == PredicateVerificationKey(inp, inputs, j)
                   input == BirthPredicateVerifierInput(j, predicate_input_bits)
               IN /\ cs' = cs \o PredicateAdded("Check birth predicate for output record " \o ToString(j))
                  /\ new_birth_predicate_hashes' =
                        Append(new_birth_predicate_hashes, ClaimedPredicateHash(vk))
                  /\ checks' = Append(checks,
                        Check("birth", j, vk, input, PredicateVerify(inp, vk, input, proof)))
                  /\ j' = j + 1
                  /\ pc' = NextStage("birth", j + 1)
                  /\ UNCHANGED result
    /\ UNCHANGED << inp, fes, value_balance_as_u64, is_negative, inner_snark_input_bits,
                    predicate_input_bits, old_death_predicate_hashes, i >>

\* `input` with the birth hashes put first.
PredicateCommitmentInput_BirthFirst(death_hashes, birth_hashes) ==
    Concat([k \in 1..NUM_OUTPUT_RECORDS |-> birth_hashes[k]])
        \o Concat([k \in 1..NUM_INPUT_RECORDS |-> death_hashes[k]])

\* `input`: the death hashes by index, then the birth hashes by index.
PredicateCommitmentInput(death_hashes, birth_hashes) ==
    Concat([k \in 1..NUM_INPUT_RECORDS |-> death_hashes[k]])
        \o Concat([k \in 1..NUM_OUTPUT_RECORDS |-> birth_hashes[k]])

\* Check that the predicate commitment is well-formed.
CheckPredicateCommitment ==
    /\ pc = "commitment"
    /\ LET input == PredicateCommitmentInput(old_death_predicate_hashes, new_birth_predicate_hashes)
           given_commitment_randomness == Witness(inp, inp.predicate_randomness, 0)
           given_commitment == Witness(inp, inp.predicate_commitment, NoCommitment)
           candidate_commitment ==
               Commit(PredicateVkCommitmentParameters, input, given_commitment_randomness)
           prefix == "Check that predicate commitment is well-formed"
       IN /\ cs' = cs \o << Added(prefix \o "/Commitment randomness", "alloc"),
                            Added(prefix \o "/Commitment output", "alloc_input"),
                            Added(prefix \o "/Compute commitment", "check_commitment"),
                            Added(prefix \o "/Check that declared and computed commitments are equal",
                                  "enforce_equal") >>
          /\ checks' = Append(checks,
                Check("commitment", 0, NoVk, <<input>>, candidate_commitment = given_commitment))
    /\ pc' = "returned"
    /\ result' = "Ok"
    /\ UNCHANGED << inp, locals >>

Next ==
    \/ DeclareParameters
    \/ ConstructFieldElements
    \/ AllocateInnerSnarkInput
    \/ VerifyInnerSnarkProof
    \/ ConstructPredicateInput
    \/ CheckDeathPredicate
    \/ CheckBirthPredicate
    \/ CheckPredicateCommitment

Spec == Init /\ [][Next]_vars

\* ================================================================ properties
\* The constraint-system entries added by the allocation of the inner-SNARK
\* input: they follow the two parameter declarations.
InnerInputAdded == SubSeq(cs, 3, 2 + Len(inner_snark_input_bits))

\* The groups of a list that are not empty, as the positions they stand at.
NonEmptyPositions(groups) == {k \in 1..Len(groups) : groups[k] # <<>>}

\* out is the subsequence of the non-empty groups of `groups`, in their order.
IsNonEmptySubsequence(out, groups) ==
    LET pos == NonEmptyPositions(groups)
    IN /\ Len(out) = Cardinality(pos)
       /\ \A p \in pos : out[Cardinality({q \in pos : q <= p})] = groups[p]

ChecksOfKind(kind) == SelectSeq(checks, LAMBDA c : c.kind = kind)

\* ------------------------------------------------------------------------ C1
\* The namespaces of the encoded groups in the order the specification fixes:
\* parameters, ledger, serial numbers (two each), commitments (one each),
\* predicate commitment, memo, local-data commitment, value balance, sign.
C1_GroupOrder ==
    << "Allocate account commitment pp ",
       "Allocate account signature pp 1", "Allocate account signature pp 2",
       "Allocate record commitment pp", "Allocate predicate vk commitment pp",
       "Allocate local data commitment pp", "Allocate serial number nonce crh pp",
       "Allocate value commitment pp", "Allocate ledger pp", "Allocate ledger digest" >>
    \o Concat([k \in 1..NUM_INPUT_RECORDS |->
          << "Allocate serial number " \o ToString(k - 1) \o " 1",
             "Allocate serial number " \o ToString(k - 1) \o " 2" >>])
    \o [k \in 1..NUM_OUTPUT_RECORDS |->
          "Allocate record commitment number " \o ToString(k - 1) \o " "]
    \o << "Allocate predicate commitment 1", "Allocate predicate commitment 2",
          "Allocate memo 1", "Allocate memo 2", "Allocate local data commitment",
          "Allocate value balance", "Allocate is_negative flag" >>

\* C1: once the inner-SNARK input is built, its groups are exactly the groups
\* of the fixed order, one per entry, each holding the bits of its own value:
\* none added, omitted or permuted.
C1_EncodedGroupsInFixedOrder ==
    inner_snark_input_bits # <<>> =>
        /\ Len(inner_snark_input_bits) = 17 + 2 * NUM_INPUT_RECORDS + NUM_OUTPUT_RECORDS
        /\ [k \in 1..Len(InnerInputAdded) |-> InnerInputAdded[k].ns] = C1_GroupOrder
        /\ \A k \in 1..Len(InnerInputAdded) : InnerInputAdded[k].op = "alloc_input"
        /\ inner_snark_input_bits = InnerCircuitGroups(inp)

\* The input of a call with a negative balance and a non-zero digest is built.
C1_Witness ==
    /\ pc = "inner_proof"
    /\ Len(inner_snark_input_bits) = 17 + 2 * NUM_INPUT_RECORDS + NUM_OUTPUT_RECORDS
    /\ inp.value_balance = I64(-5)
    /\ \E s \in OpaqueSrcs : inp.fe_len[s] = MaxFeLen

\* ------------------------------------------------------------------------ C2
\* The digest blocks of the keys verified in the death and in the birth checks.
VerifiedDigests(kind) ==
    LET cks == ChecksOfKind(kind)
    IN [k \in 1..Len(cks) |-> CRH(PredicateVkCrhParameters, VkToBytes(cks[k].vk))]

\* Every arrangement of a list of blocks, concatenated.
Reorderings(blocks) ==
    {Concat([k \in 1..Len(blocks) |-> blocks[p[k]]]) : p \in Permutations(1..Len(blocks))}

\* C2: the committed input is the digests of the keys verified in the death
\* checks by index, then of those verified in the birth checks by index; the
\* equality constraint holds exactly when that input commits, under the
\* supplied randomness, to the declared commitment; a commitment declared over
\* any other order of the same digests is different and fails the constraint.
C2_CommitmentOverFixedOrder ==
    (ChecksOfKind("commitment") # <<>> /\ ~inp.lazy_witness) =>
        LET c == ChecksOfKind("commitment")[1]
            death == ChecksOfKind("death")
            birth == ChecksOfKind("birth")
            fixed == Concat(VerifiedDigests("death")) \o Concat(VerifiedDigests("birth"))
            commit(x) == Commit(PredicateVkCommitmentParameters, x, inp.predicate_randomness)
        IN /\ Len(death) = NUM_INPUT_RECORDS
           /\ Len(birth) = NUM_OUTPUT_RECORDS
           /\ \A k \in 1..Len(death) :
                 /\ death[k].index = k - 1
                 /\ death[k].vk = inp.old_death_predicate_verification_inputs[k].verification_key
           /\ \A k \in 1..Len(birth) :
                 /\ birth[k].index = k - 1
                 /\ birth[k].vk = inp.new_birth_predicate_verification_inputs[k].verification_key
           /\ c.input = <<fixed>>
           /\ c.sat <=> (commit(fixed) = inp.predicate_commitment)
           /\ \A other \in Reorderings(VerifiedDigests("death") \o VerifiedDigests("birth")) :
                 other # fixed =>
                    /\ commit(other) # commit(fixed)
                    /\ inp.predicate_commitment = commit(other) => ~c.sat

\* The commitment was declared over the birth digests followed by the death
\* digests, every predicate proof is valid, and the equality constraint fails.
C2_Witness ==
    /\ pc = "returned"
    /\ result = "Ok"
    /\ ~inp.lazy_witness
    /\ inp.predicate_commitment =
          Commit(PredicateVkCommitmentParameters,
                 Concat(VerifiedDigests("birth")) \o Concat(VerifiedDigests("death")),
                 inp.predicate_randomness)
    /\ \A k \in 1..Len(checks) : checks[k].sat <=> checks[k].kind # "commitment"

\* ------------------------------------------------------------------------ C3
\* The signed balance a magnitude and a sign byte stand for.
Decode(magnitude, sign) == IF sign = 1 THEN WrappingNeg(magnitude) ELSE magnitude

\* The call got past every embedding of the opaque values, so the balance is
\* the next thing it encodes.
ReachesBalance == pc \notin {"parameters", "field_elements"} /\ inp.fe_err \cap OpaqueSrcs = {}

\* C3: every signed 64-bit balance, the most negative one included, is encoded
\* as magnitude and sign, and decoding that encoding gives the balance back.
C3_SignRoundTrip ==
    ReachesBalance =>
        /\ Len(value_balance_as_u64) = 8
        /\ Decode(value_balance_as_u64, IF is_negative THEN 1 ELSE 0) = inp.value_balance

\* ------------------------------------------------------------------------ C4
TooFewPredicateInputs ==
    \/ Len(inp.old_death_predicate_verification_inputs) < NUM_INPUT_RECORDS
    \/ Len(inp.new_birth_predicate_verification_inputs) < NUM_OUTPUT_RECORDS

\* C4: a call with fewer death or birth inputs than declared records never
\* returns success, whatever the mode of the constraint system, and never
\* ends with fewer predicate checks than declared records.
C4_TooFewInputsRejected ==
    (pc = "returned" /\ TooFewPredicateInputs) =>
        /\ result # "Ok"
        /\ result = "Ok" =>
              /\ Len(ChecksOfKind("death")) = NUM_INPUT_RECORDS
              /\ Len(ChecksOfKind("birth")) = NUM_OUTPUT_RECORDS

\* ------------------------------------------------------------------------ C5
\* The values read at [0] and [1].
IndexedSrcs ==
    {Src("account_signature", 0), Src("predicate_commitment", 0), Src("memo", 0)}
        \cup Range(SerialNumberSrcs)

\* Some required value has no field-element or byte representation, or embeds
\* to fewer elements than are read from it.
Unconvertible(a) ==
    \/ a.fe_err # {}
    \/ a.bytes_err # {}
    \/ \E s \in IndexedSrcs : a.fe_len[s] < 2

\* C5: such a call returns AssignmentMissing, and nothing from the inner-proof
\* check on was added to the constraint system.  (The balance is one that
\* abs() accepts, so that the failing conversion is the first failure.)
C5_UnconvertibleIsAssignmentMissing ==
    (pc = "returned" /\ Unconvertible(inp) /\ ~AbsOverflows(inp.value_balance)) =>
        /\ result = "AssignmentMissing"
        /\ checks = <<>>
        /\ predicate_input_bits = <<>>

\* ------------------------------------------------------------------------ C6
\* Every conversion of the call succeeds and the counts are the declared ones.
Convertible(a) ==
    /\ ~Unconvertible(a)
    /\ ~(a.overflow_checks /\ AbsOverflows(a.value_balance))

CountsCorrect(a) ==
    /\ Len(a.old_death_predicate_verification_inputs) = NUM_INPUT_RECORDS
    /\ Len(a.new_birth_predicate_verification_inputs) = NUM_OUTPUT_RECORDS

\* The checks of an honest run: kind and index, in the order they are added.
HonestChecks ==
    << <<"inner", 0>> >>
    \o [k \in 1..NUM_INPUT_RECORDS |-> <<"death", k - 1>>]
    \o [k \in 1..NUM_OUTPUT_RECORDS |-> <<"birth", k - 1>>]
    \o << <<"commitment", 0>> >>

\* Everything an honest run adds to the constraint system, in order.
HonestConstraintSystem ==
    << Added("Declare predicate_vk_commitment_parameters", "alloc_input"),
       Added("Declare predicate_vk_crh_parameters", "alloc_input") >>
    \o [k \in 1..Len(C1_GroupOrder) |-> Added(C1_GroupOrder[k], "alloc_input")]
    \o << Added("Allocate inner snark verification key", "alloc"),
          Added("Allocate inner snark proof", "alloc"),
          Added("Check that proof is satisfied", "check_verify"),
          Added("Allocate local data pp ", "alloc_input"),
          Added("Allocate local data comm", "alloc_input") >>
    \o Concat([k \in 1..NUM_INPUT_RECORDS |->
          PredicateAdded("Check death predicate for input record " \o ToString(k - 1))])
    \o Concat([k \in 1..NUM_OUTPUT_RECORDS |->
          PredicateAdded("Check birth predicate for output record " \o ToString(k - 1))])
    \o << Added("Check that predicate commitment is well-formed/Commitment randomness", "alloc"),
          Added("Check that predicate commitment is well-formed/Commitment output", "alloc_input"),
          Added("Check that predicate commitment is well-formed/Compute commitment", "check_commitment"),
          Added("Check that predicate commitment is well-formed/Check that declared and computed commitments are equal",
                "enforce_equal") >>

KindsAndIndices == [k \in 1..Len(checks) |-> <<checks[k].kind, checks[k].index>>]

\* The inner proof and the predicate proofs as an honest prover makes them.
InnerProofIsValid(a) ==
    a.inner_snark_proof = [vk |-> a.inner_snark_vk, ledger_digest |-> a.ledger_digest]

PredicateProofIsValid(inputs, k) ==
    inputs[k].proof = [vk |-> inputs[k].verification_key, tag |-> k - 1]

\* C6: with every value convertible and the counts correct the call returns
\* Ok whatever the witnesses are, having added the inner check, every death
\* check, every birth check and the commitment check, exactly as an honest run
\* does; an invalid proof shows only as an unsatisfied constraint.
C6_NoShortCircuitOnBadWitness ==
    (pc = "returned" /\ Convertible(inp) /\ CountsCorrect(inp)) =>
        /\ result = "Ok"
        /\ KindsAndIndices = HonestChecks
        /\ cs = HonestConstraintSystem
        /\ ~inp.lazy_witness =>
              /\ checks[1].sat <=> InnerProofIsValid(inp)
              /\ \A k \in 1..NUM_INPUT_RECORDS :
                    ChecksOfKind("death")[k].sat <=>
                       PredicateProofIsValid(inp.old_death_predicate_verification_inputs, k)
              /\ \A k \in 1..NUM_OUTPUT_RECORDS :
                    ChecksOfKind("birth")[k].sat <=>
                       PredicateProofIsValid(inp.new_birth_predicate_verification_inputs, k)

\* A run with an invalid inner proof, an invalid death proof and a commitment
\* that does not match returned Ok with every check added and those unsatisfied.
C6_Witness ==
    /\ pc = "returned"
    /\ result = "Ok"
    /\ ~inp.lazy_witness
    /\ ~InnerProofIsValid(inp)
    /\ ~PredicateProofIsValid(inp.old_death_predicate_verification_inputs, 1)
    /\ KindsAndIndices = HonestChecks
    /\ ~checks[1].sat
    /\ ~checks[2].sat
    /\ ~checks[Len(checks)].sat

\* ------------------------------------------------------------------------ C7
DeathKeys(a) ==
    [k \in 1..Len(a.old_death_predicate_verification_inputs) |->
        a.old_death_predicate_verification_inputs[k].verification_key]
BirthKeys(a) ==
    [k \in 1..Len(a.new_birth_predicate_verification_inputs) |->
        a.new_birth_predicate_verification_inputs[k].verification_key]

\* Call a is a satisfiable instance: every proof is valid for its slot and the
\* declared commitment commits to the keys in the fixed order.
Satisfiable(a) ==
    /\ ~a.lazy_witness
    /\ Convertible(a)
    /\ CountsCorrect(a)
    /\ InnerProofIsValid(a)
    /\ \A k \in DeathSlots : PredicateProofIsValid(a.old_death_predicate_verification_inputs, k)
    /\ \A k \in BirthSlots : PredicateProofIsValid(a.new_birth_predicate_verification_inputs, k)
    /\ a.predicate_commitment =
          Commit(PredicateVkCommitmentParameters,
                 DigestsOf(DeathKeys(a)) \o DigestsOf(BirthKeys(a)), a.predicate_randomness)

\* Call a with the keys of consumed records 0 and 1 exchanged, every proof
\* left at its index.
WithDeathKeysSwapped(a) ==
    [a EXCEPT !.old_death_predicate_verification_inputs =
        [k \in 1..Len(@) |-> [verification_key |-> @[Partner(k)].verification_key,
                               proof |-> @[k].proof]]]

\* The call is a satisfiable instance in which the keys of consumed records 0
\* and 1 were then exchanged.
IsSwapOfSatisfiable(a) ==
    /\ CountsCorrect(a)
    /\ NUM_INPUT_RECORDS >= 2
    /\ Satisfiable(WithDeathKeysSwapped(a))

SwapBreaksChecks ==
    /\ ~ChecksOfKind("death")[1].sat
    /\ ~ChecksOfKind("death")[2].sat
    /\ ~ChecksOfKind("commitment")[1].sat

PredicateChecks == SelectSeq(checks, LAMBDA c : c.kind \in {"death", "birth"})

\* The proof supplied for the record a predicate check is about.
SuppliedProof(c) ==
    IF c.kind = "death" THEN inp.old_death_predicate_verification_inputs[c.index + 1].proof
    ELSE inp.new_birth_predicate_verification_inputs[c.index + 1].proof

\* Each predicate proof is checked against the tag byte of its index followed
\* by the local-data parameters and the local-data commitment.
TaggedPublicInput ==
    \A k \in 1..Len(PredicateChecks) :
        LET c == PredicateChecks[k]
        IN IsNonEmptySubsequence(c.input,
              << [b \in 1..8 |-> ((c.index % 256) \div (2 ^ (b - 1))) % 2],
                 BytesToBits(ToBytesVec(ToFieldElements(inp, Src("local_data_commitment_pp", 0)))),
                 BytesToBits(ToBytesVec(ToFieldElements(inp, Src("local_data_commitment", 0)))) >>)

\* C8 as stated: the public inputs checked at any two distinct record
\* positions differ.
C8_DistinctPositionsDistinctInputs ==
    /\ TaggedPublicInput
    /\ \A k, l \in 1..Len(PredicateChecks) :
          k # l => PredicateChecks[k].input # PredicateChecks[l].input

\* C8, amended: the public inputs checked at two distinct indices of the same
\* loop differ, and a proof made for another index than the one it is
\* supplied at is not accepted.
C8_DistinctIndicesDistinctInputs ==
    /\ TaggedPublicInput
    /\ \A k, l \in 1..Len(PredicateChecks) :
          (/\ PredicateChecks[k].kind = PredicateChecks[l].kind
           /\ PredicateChecks[k].index % 256 # PredicateChecks[l].index % 256)
             => PredicateChecks[k].input # PredicateChecks[l].input
    /\ ~inp.lazy_witness =>
          \A k \in 1..Len(PredicateChecks) :
             SuppliedProof(PredicateChecks[k]).tag # PredicateChecks[k].index
                => ~PredicateChecks[k].sat

\* A proof made for the supplied key but for another index was checked at
\* index 0 and not accepted, while the proofs of the created records were.
C8_Witness ==
    /\ pc = "returned"
    /\ result = "Ok"
    /\ ~inp.lazy_witness
    /\ LET c == ChecksOfKind("death")[1]
       IN /\ SuppliedProof(c).vk = c.vk
          /\ SuppliedProof(c).tag # c.index
          /\ ~c.sat
    /\ \A k \in 1..NUM_OUTPUT_RECORDS : ChecksOfKind("birth")[k].sat

\* ------------------------------------------------------------------------ C9
\* C9: what each verifier is handed is exactly the non-empty groups of its
\* encoded input, in their order and unchanged: for the inner proof the groups
\* of the inner-SNARK input, for a predicate proof the tag and the two
\* local-data groups.
C9_EmptyGroupsFiltered ==
    /\ \A k \in 1..Len(ChecksOfKind("inner")) :
          IsNonEmptySubsequence(ChecksOfKind("inner")[k].input, inner_snark_input_bits)
    /\ \A k \in 1..Len(PredicateChecks) :
          IsNonEmptySubsequence(PredicateChecks[k].input,
              <<Position(PredicateChecks[k].index)>> \o predicate_input_bits)

\* An empty group was dropped from the inner-SNARK input and from the input
\* of a predicate check.
C9_Witness ==
    /\ ChecksOfKind("inner") # <<>>
    /\ \E k \in 1..Len(inner_snark_input_bits) : inner_snark_input_bits[k] = <<>>
    /\ Len(ChecksOfKind("inner")[1].input) < Len(inner_snark_input_bits)
    /\ PredicateChecks # <<>>
    /\ Len(PredicateChecks[1].input) = 2

\* ----------------------------------------------------------------------- C10
IsPrefix(s, t) == Len(s) <= Len(t) /\ s = SubSeq(t, 1, Len(s))

\* C10: what the call has added to the constraint system is at every moment
\* an initial part of the one fixed sequence parameters, encoded inputs,
\* inner-proof check, death checks by index, birth checks by index,
\* commitment check; a stage has run only if every earlier one has completed,
\* and the commitment check runs over the digests of all the death keys and
\* all the birth keys.
C10_StagesInOrder ==
    /\ IsPrefix(cs, HonestConstraintSystem)
    /\ IsPrefix(KindsAndIndices, HonestChecks)
    /\ inner_snark_input_bits # <<>> => IsPrefix(SubSeq(HonestConstraintSystem, 1, 2), cs)
    /\ checks # <<>> =>
          Len(inner_snark_input_bits) = 17 + 2 * NUM_INPUT_RECORDS + NUM_OUTPUT_RECORDS
    /\ PredicateChecks # <<>> => Len(predicate_input_bits) = 2
    /\ Len(old_death_predicate_hashes) = Len(ChecksOfKind("death"))
    /\ Len(new_birth_predicate_hashes) = Len(ChecksOfKind("birth"))
    /\ (pc = "commitment" \/ ChecksOfKind("commitment") # <<>>) =>
          /\ Len(old_death_predicate_hashes) = NUM_INPUT_RECORDS
          /\ Len(new_birth_predicate_hashes) = NUM_OUTPUT_RECORDS
    /\ pc = "birth" => Len(old_death_predicate_hashes) = NUM_INPUT_RECORDS
    /\ ChecksOfKind("commitment") # <<>> =>
          ChecksOfKind("commitment")[1].input =
             << Concat(old_death_predicate_hashes) \o Concat(new_birth_predicate_hashes) >>

\* The commitment check is about to run, after every other stage.
C10_Witness ==
    /\ pc = "commitment"
    /\ Len(old_death_predicate_hashes) = NUM_INPUT_RECORDS
    /\ Len(new_birth_predicate_hashes) = NUM_OUTPUT_RECORDS
    /\ KindsAndIndices = SubSeq(HonestChecks, 1, Len(HonestChecks) - 1)

\* ----------------------------------------------------------------------- C11
\* C11: the tag carries the record index and not the predicate kind. The
\* death predicate of consumed record k and the birth predicate of created
\* record k are verified against the same public input (the tag byte k and
\* the two local-data groups), so a (proof, verification key) pair accepted
\* in death slot k verifies against the input of birth slot k, and is accepted
\* there when it is supplied there.
C11_TagCarriesOnlyIndex ==
    /\ TaggedPublicInput
    /\ \A k \in 1..Len(ChecksOfKind("death")), l \in 1..Len(ChecksOfKind("birth")) :
          LET d == ChecksOfKind("death")[k]
              b == ChecksOfKind("birth")[l]
          IN d.index = b.index =>
                /\ d.input = b.input
                /\ (~inp.lazy_witness /\ d.sat) =>
                      /\ PredicateVerify(inp, d.vk, b.input, SuppliedProof(d))
                      /\ (b.vk = d.vk /\ SuppliedProof(b) = SuppliedProof(d)) => b.sat

\* The pair accepted for consumed record 1 was supplied for created record 1
\* as well and accepted there, against the same public input.
C11_Witness ==
    /\ pc = "returned"
    /\ result = "Ok"
    /\ ~inp.lazy_witness
    /\ LET d == ChecksOfKind("death")[2]
           b == ChecksOfKind("birth")[2]
       IN /\ d.index = 1
          /\ b.index = 1
          /\ d.vk = b.vk
          /\ SuppliedProof(d) = SuppliedProof(b)
          /\ d.input = b.input
          /\ d.sat
          /\ b.sat

====
